---- MODULE Spec2Model ----
(***************************************************************************)
(* Slideshow editor and video export pipeline of mon-diaporama (App.tsx).  *)
(*                                                                         *)
(* Time is counted in ticks of 1/(2*FPS) second, so that every frame time  *)
(* frame/FPS and every duration the sliders offer (whole seconds, half     *)
(* seconds) is an integer number of ticks.  Ratios (motion progress, blend *)
(* alpha) are kept as numerator/denominator pairs and compared by cross    *)
(* multiplication.                                                         *)
(*                                                                         *)
(* Every action is one run-to-completion JavaScript task: an event handler *)
(* up to its first await, the continuation of an await, or a callback.     *)
(***************************************************************************)
EXTENDS Integers, Sequences, FiniteSets, TLC

\* ------------------------------------------------------------------ bounds
MaxSlides == 3

\* progress values k / ProgressSteps, k = 0..ProgressSteps, at which the
\* motion transform is evaluated
ProgressSteps == 20

\* --------------------------------------------------------------- constants
FPS == 30

WIDTH == 1280

HEIGHT == 720

TicksPerSecond == 2 * FPS

Sec(s) == s * TicksPerSecond

HalfSec(h) == h * FPS

\* slider "slideDuration": whole seconds (parseInt), 1..10; 1 s and the
\* default 4 s are modelled
SlideDurationValues == {Sec(1), Sec(4)}

\* slider "transitionDuration": half seconds (parseFloat); 0 is not on the
\* slider but is the boundary value render() tests for explicitly
TransitionDurationValues == {0, HalfSec(1), Sec(1)}

\* the slider's maximum, 3 s: the only setting range where
\* Math.min(2, transitionDuration) is not transitionDuration
LongTransitionValues == {Sec(3)}

\* HTMLMediaElement.duration: NaN until the metadata is known, Infinity for a
\* file without a duration header, else a finite length
NaN == [kind |-> "nan", ticks |-> 0]

Infinity == [kind |-> "inf", ticks |-> 0]

Finite(t) == [kind |-> "finite", ticks |-> t]

\* audioRef.current.duration as handlePlayPause can read it
TrackDurations == {NaN, Infinity, Finite(Sec(8)), Finite(Sec(12))}

\* exportAudio.duration after canplaythrough: the metadata is loaded, so the
\* value is no longer NaN
ReadyDurations == {Infinity, Finite(Sec(20))}

\* an ordinary file: the length is in its header
FiniteDurations == {Finite(Sec(20))}

Motions == {"none", "zoom-in", "zoom-out", "pan-left", "pan-right", "pan-up",
            "pan-down", "rotate"}

MusicBehaviors == {"loop", "fade"}

NoProgress == [kind |-> "empty", slide |-> 0, of |-> 0, pct |-> 0]

InitProgress == [kind |-> "init", slide |-> 0, of |-> 0, pct |-> 0]

AudioFailedProgress == [kind |-> "audioFailed", slide |-> 0, of |-> 0, pct |-> 0]

VARIABLES
    slides,            \* sequence of motion kinds, one per slide
    settings,          \* [slideDuration, transitionDuration] in ticks
    musicUrl,          \* TRUE iff a music file was chosen (audio element mounted)
    musicBehavior,     \* "loop" | "fade"
    isPlaying,         \* preview playing
    currentSlideIndex, \* preview index (0-based)
    isExporting,
    exportProgress,
    audioMuted,        \* audioRef.current.muted
    audioPaused,       \* audioRef.current.paused
    audioCurrentTime,  \* audioRef.current.currentTime as last set, in ticks
    playPromise,       \* "none" | "pending": promise of audioRef.current.play()
    audioDuration,     \* audioRef.current.duration
    lastEvent,         \* last user event handler that ran
    pc,                \* position of the async handleExport
    exportAudio,       \* "none" (null) | "loading" | "playing"
    exportAudioLoop,   \* exportAudio.loop
    musicDuration,     \* const musicDuration = exportAudio.duration
    gainEvents,        \* automation events scheduled on gainNode.gain
    recorder,          \* "none" | "recording" | "inactive"
    stopPending,       \* the recorder's stop event is queued
    loadedImages,      \* per slide: "pending" | "img" | "blank"
    rafQueued,         \* number of queued requestAnimationFrame(render) callbacks
    frame,             \* render's frame counter
    drawn,             \* drawSlideWithMotion calls of the last rendered frame
    stopCalls,         \* number of recorder.stop() calls of this export
    artifact           \* "none" | "saved": diaporama.webm was downloaded

vars == <<slides, settings, musicUrl, musicBehavior, isPlaying,
          currentSlideIndex, isExporting, exportProgress, audioMuted,
          audioPaused, audioCurrentTime, playPromise, audioDuration,
          lastEvent, pc, exportAudio, exportAudioLoop, musicDuration,
          gainEvents, recorder, stopPending, loadedImages,
          rafQueued, frame, drawn, stopCalls, artifact>>

previewVars == <<isPlaying, currentSlideIndex>>

audioVars == <<audioPaused, audioCurrentTime, playPromise, audioDuration>>

envelopeVars == <<exportAudioLoop, musicDuration, gainEvents>>

exportVars == <<isExporting, exportProgress, audioMuted, pc, exportAudio,
                exportAudioLoop, musicDuration, gainEvents,
                recorder, stopPending, loadedImages, rafQueued, frame,
                drawn, stopCalls, artifact>>

\* a render callback is queued
rafPending == rafQueued > 0

\* ------------------------------------------------------------------- Init
Init ==
    /\ slides = <<>>
    /\ settings = [slideDuration |-> Sec(4), transitionDuration |-> Sec(1)]
    /\ musicUrl = FALSE
    /\ musicBehavior = "loop"
    /\ isPlaying = FALSE
    /\ currentSlideIndex = 0
    /\ isExporting = FALSE
    /\ exportProgress = NoProgress
    /\ audioMuted = FALSE
    /\ audioPaused = TRUE
    /\ audioCurrentTime = 0
    /\ playPromise = "none"
    /\ audioDuration = NaN
    /\ lastEvent = "none"
    /\ pc = "idle"
    /\ exportAudio = "none"
    /\ exportAudioLoop = FALSE
    /\ musicDuration = NaN
    /\ gainEvents = <<>>
    /\ recorder = "none"
    /\ stopPending = FALSE
    /\ loadedImages = <<>>
    /\ rafQueued = 0
    /\ frame = 0
    /\ drawn = <<>>
    /\ stopCalls = 0
    /\ artifact = "none"

\* The export overlay covers every control while isExporting is true.
OverlayShown == isExporting

\* ------------------------------------------------------- editor handlers
handleImageUpload(k) ==
    /\ ~OverlayShown
    /\ Len(slides) + k <= MaxSlides
    /\ slides' = slides \o [i \in 1..k |-> "zoom-in"]
    /\ lastEvent' = "upload"
    /\ UNCHANGED <<settings, musicUrl, musicBehavior, previewVars, audioVars,
                   exportVars>>

\* the <audio> element gets a new src: it is paused and rewound, and a
\* pending play() promise is rejected, whose catch calls setIsPlaying(false)
handleMusicUpload ==
    /\ ~OverlayShown
    /\ musicUrl' = TRUE
    /\ audioPaused' = TRUE
    /\ audioCurrentTime' = 0
    /\ playPromise' = "none"
    /\ audioDuration' = NaN
    /\ isPlaying' = IF playPromise = "pending" THEN FALSE ELSE isPlaying
    /\ lastEvent' = "music"
    /\ UNCHANGED <<slides, settings, musicBehavior, currentSlideIndex,
                   exportVars>>

setMusicBehavior(b) ==
    /\ ~OverlayShown
    /\ musicUrl
    /\ musicBehavior' = b
    /\ lastEvent' = "behavior"
    /\ UNCHANGED <<slides, settings, musicUrl, previewVars, audioVars,
                   exportVars>>

handleSettingsChange(field, value) ==
    /\ ~OverlayShown
    /\ settings' = [settings EXCEPT ![field] = value]
    /\ lastEvent' = "settings"
    /\ UNCHANGED <<slides, musicUrl, musicBehavior, previewVars, audioVars,
                   exportVars>>

RemoveAt(s, i) == [j \in 1..(Len(s) - 1) |-> IF j < i THEN s[j] ELSE s[j + 1]]

\* variant: no floor, the second argument is taken as it is
MaxUnfloored(a, b) == b

Max(a, b) == IF a >= b THEN a ELSE b

handleRemoveSlide(i) ==
    /\ ~OverlayShown
    /\ i \in 1..Len(slides)
    /\ LET newSlides == RemoveAt(slides, i) IN
        /\ isPlaying' = IF Len(newSlides) = 0 THEN FALSE ELSE isPlaying
        /\ currentSlideIndex' =
               IF currentSlideIndex >= Len(newSlides)
               THEN Max(0, Len(newSlides) - 1)
               ELSE currentSlideIndex
        /\ slides' = newSlides
    /\ lastEvent' = "remove"
    /\ UNCHANGED <<settings, musicUrl, musicBehavior, audioVars, exportVars>>

\* ---------------------------------------------------------------- preview
\* variant: the slide time is used as the offset without wrapping
StartOffsetUnwrapped(index, period, duration) ==
    IF duration.kind = "finite" /\ duration.ticks # 0
    THEN index * period
    ELSE 0

\* startTime = currentSlideIndex * (slideDuration + transitionDuration);
\* duration && isFinite(duration) ? startTime % duration : 0
StartOffset(index, period, duration) ==
    IF duration.kind = "finite" /\ duration.ticks # 0
    THEN (index * period) % duration.ticks
    ELSE 0

\* the element has read the header of the file: duration becomes the length
\* of the track, or Infinity when the file does not tell
loadedmetadata(duration) ==
    /\ musicUrl
    /\ audioDuration = NaN
    /\ audioDuration' = duration
    /\ UNCHANGED <<slides, settings, musicUrl, musicBehavior, previewVars,
                   audioPaused, audioCurrentTime, playPromise, lastEvent,
                   exportVars>>

\* variant: play is accepted without slides
PlayRefusedNever == FALSE

\* if (slides.length === 0) return;
PlayRefused == Len(slides) = 0

handlePlayPause ==
    /\ ~OverlayShown
    /\ lastEvent' = "playPause"
    /\ UNCHANGED <<slides, settings, musicUrl, musicBehavior,
                   currentSlideIndex, exportVars>>
    /\ IF PlayRefused
       THEN UNCHANGED <<isPlaying, audioVars>>
       ELSE /\ isPlaying' = ~isPlaying
            /\ IF ~musicUrl
               THEN UNCHANGED audioVars
               ELSE IF ~isPlaying
               THEN /\ audioCurrentTime' =
                        StartOffset(currentSlideIndex,
                                    settings.slideDuration
                                        + settings.transitionDuration,
                                    audioDuration)
                    /\ audioPaused' = FALSE
                    /\ playPromise' = "pending"
                    /\ UNCHANGED audioDuration
               ELSE \* pause(); a pending play() promise is rejected and its
                    \* catch calls setIsPlaying(false)
                    /\ audioPaused' = TRUE
                    /\ playPromise' = "none"
                    /\ UNCHANGED <<audioCurrentTime, audioDuration>>

\* the promise of play() is fulfilled
playFulfilled ==
    /\ playPromise = "pending"
    /\ playPromise' = "none"
    /\ UNCHANGED <<slides, settings, musicUrl, musicBehavior, previewVars,
                   audioPaused, audioCurrentTime, audioDuration, lastEvent,
                   exportVars>>

\* playPromise.catch(e => { ...; setIsPlaying(false); })
playRejected ==
    /\ playPromise = "pending"
    /\ playPromise' = "none"
    /\ audioPaused' = TRUE
    /\ isPlaying' = FALSE
    /\ UNCHANGED <<slides, settings, musicUrl, musicBehavior,
                   currentSlideIndex, audioCurrentTime, audioDuration,
                   lastEvent, exportVars>>

\* the timer effect is armed: isPlaying && slides.length > 1
TimerArmed == isPlaying /\ Len(slides) > 1

\* variant: every other slide is skipped
NextIndexSkipping(prev, count) == (prev + 2) % count

\* (prev + 1) % slides.length
NextIndex(prev, count) == (prev + 1) % count

\* expiry of the timer set by the effect: advanceSlide
advanceSlide ==
    /\ TimerArmed
    /\ currentSlideIndex' = NextIndex(currentSlideIndex, Len(slides))
    /\ lastEvent' = "timer"
    /\ UNCHANGED <<slides, settings, musicUrl, musicBehavior, isPlaying,
                   audioVars, exportVars>>

\* ------------------------------------------------------ timeline of render
\* elapsed = frame / FPS, in ticks
Elapsed(f) == (f * TicksPerSecond) \div FPS

\* variant: the period leaves out the transition
PeriodWithoutTransition == settings.slideDuration

Period == settings.slideDuration + settings.transitionDuration

TotalDuration == Len(slides) * Period

\* variant: the end test looks one frame ahead
TimelineEndedEarly(elapsed, totalDuration) ==
    elapsed + (TicksPerSecond \div FPS) >= totalDuration

\* if (elapsed >= totalDuration) { recorder.stop(); return; }
TimelineEnded(elapsed, totalDuration) == elapsed >= totalDuration

\* variant: the index is rounded up and wrapped around the slide list
SlideIndexAtWrapped(elapsed, period) == (elapsed \div period + 1) % Len(slides)

\* Math.floor(elapsed / period)
SlideIndexAt(elapsed, period) == elapsed \div period

\* variant: time within the slide's display time instead of the period
TimeInSlideDuration(elapsed, period) == elapsed % settings.slideDuration

\* elapsed % period
TimeInPeriod(elapsed, period) == elapsed % period

\* variant: the steady test compares against the transition duration
InSteadyPartSwapped(timeInPeriod) == timeInPeriod < settings.transitionDuration

\* timeInPeriod < settings.slideDuration || settings.transitionDuration === 0
InSteadyPart(timeInPeriod) ==
    \/ timeInPeriod < settings.slideDuration
    \/ settings.transitionDuration = 0

\* variant: progress measured over the whole period
SteadyProgressOverPeriod(timeInPeriod) == <<timeInPeriod, Period>>

\* timeInPeriod / settings.slideDuration
SteadyProgress(timeInPeriod) == <<timeInPeriod, settings.slideDuration>>

\* variant: slideDuration not subtracted
TransitionProgressFromPeriodStart(timeInPeriod) ==
    <<timeInPeriod, settings.transitionDuration>>

\* (timeInPeriod - settings.slideDuration) / settings.transitionDuration
TransitionProgress(timeInPeriod) ==
    <<timeInPeriod - settings.slideDuration, settings.transitionDuration>>

\* nextSlideIndex >= slides.length
NoSuccessor(nextSlideIndex) == nextSlideIndex >= Len(slides)

\* Math.round(n / d) for n >= 0, d > 0
RoundRatio(n, d) == (2 * n + d) \div (2 * d)

\* variant: the slide number is reported as the 0-based index
FrameProgressZeroBased(slideIndex, elapsed, totalDuration) ==
    [kind |-> "frame", slide |-> slideIndex, of |-> Len(slides),
     pct |-> RoundRatio(100 * elapsed, totalDuration)]

\* `Rendu de la photo ${slideIndex + 1} sur ${slides.length}... (${percent}%)`
FrameProgress(slideIndex, elapsed, totalDuration) ==
    [kind |-> "frame", slide |-> slideIndex + 1, of |-> Len(slides),
     pct |-> RoundRatio(100 * elapsed, totalDuration)]

\* variant: the offset is taken from the start, not from the middle
FromStart(p) == <<2 * p[1], 2 * p[2]>>

\* progress - 0.5 (0.5 - progress is its opposite)
HalfWay(p) == <<2 * p[1] - p[2], 2 * p[2]>>

\* scale, dx, dy (pixels) and rotation (degrees, multiplied by PI/180 in the
\* code) of drawSlideWithMotion for progress = p[1]/p[2], each as a ratio
Transform(motion, p) ==
    LET n == p[1]
        d == p[2]
        h == HalfWay(p)
        base == [scale |-> <<115, 100>>, dx |-> <<0, 1>>, dy |-> <<0, 1>>,
                 rotation |-> <<0, 1>>]
    IN  CASE motion = "zoom-in" ->
                 [base EXCEPT !.scale = <<100 * d + 15 * n, 100 * d>>]
          [] motion = "zoom-out" ->
                 [base EXCEPT !.scale = <<115 * d - 15 * n, 100 * d>>]
          [] motion = "pan-left" ->
                 [base EXCEPT !.dx = <<(0 - h[1]) * WIDTH, 10 * h[2]>>]
          [] motion = "pan-right" ->
                 [base EXCEPT !.dx = <<h[1] * WIDTH, 10 * h[2]>>]
          [] motion = "pan-up" ->
                 [base EXCEPT !.dy = <<(0 - h[1]) * HEIGHT, 10 * h[2]>>]
          [] motion = "pan-down" ->
                 [base EXCEPT !.dy = <<h[1] * HEIGHT, 10 * h[2]>>]
          [] motion = "rotate" ->
                 [base EXCEPT !.scale = <<120, 100>>,
                              !.rotation = <<h[1] * 2, h[2]>>]
          [] motion = "none" ->
                 [base EXCEPT !.scale = <<100, 100>>]

\* one call drawSlideWithMotion(ctx, W, H, slides[i], loadedImages[i], progress)
\* made while ctx.globalAlpha = alpha (indices are 0-based as in the code)
drawSlideWithMotion(i, progress, alpha) ==
    [slide |-> i, motion |-> slides[i + 1], image |-> loadedImages[i + 1],
     progress |-> progress, alpha |-> alpha,
     transform |-> Transform(slides[i + 1], progress)]

One == <<1, 1>>

Zero == <<0, 1>>

\* variant: the successor index wraps around as in the preview, so the last
\* slide blends into the first
FrameDrawsWrapping(elapsed) ==
    LET slideIndex == SlideIndexAt(elapsed, Period)
        timeInPeriod == TimeInPeriod(elapsed, Period)
    IN  IF InSteadyPart(timeInPeriod)
        THEN <<drawSlideWithMotion(slideIndex, SteadyProgress(timeInPeriod), One)>>
        ELSE <<drawSlideWithMotion(slideIndex, One, One),
               drawSlideWithMotion((slideIndex + 1) % Len(slides), Zero,
                                   TransitionProgress(timeInPeriod))>>

\* the drawing calls render makes for a frame at time elapsed < totalDuration
FrameDraws(elapsed) ==
    LET slideIndex == SlideIndexAt(elapsed, Period)
        timeInPeriod == TimeInPeriod(elapsed, Period)
    IN  IF InSteadyPart(timeInPeriod)
        THEN <<drawSlideWithMotion(slideIndex, SteadyProgress(timeInPeriod), One)>>
        ELSE LET nextSlideIndex == slideIndex + 1 IN
             IF NoSuccessor(nextSlideIndex)
             THEN <<drawSlideWithMotion(slideIndex, One, One)>>
             ELSE <<drawSlideWithMotion(slideIndex, One, One),
                    drawSlideWithMotion(nextSlideIndex, Zero,
                                        TransitionProgress(timeInPeriod))>>

\* --------------------------------------------------------------- export
\* variant: only a running export refuses a new one
ExportRefusedBusyOnly == isExporting

\* if (slides.length === 0 || isExporting) return;
ExportRefused == Len(slides) = 0 \/ isExporting

\* variant: the failed element is kept
KeptAudio == "loading"

\* catch: exportAudio.pause(); exportAudio = null
ReleasedAudio == "none"

\* exportAudio.loop = musicBehavior === 'loop'
LoopFlag == musicBehavior = "loop"

\* totalSlideshowDuration < musicDuration (false for NaN, true for Infinity)
LessThanDuration(t, duration) ==
    \/ duration.kind = "inf"
    \/ duration.kind = "finite" /\ t < duration.ticks

\* musicBehavior === 'fade' && totalSlideshowDuration < musicDuration
FadeEngaged(totalSlideshowDuration, duration) ==
    musicBehavior = "fade" /\ LessThanDuration(totalSlideshowDuration, duration)

Min(a, b) == IF a <= b THEN a ELSE b

\* variant: the fade lasts the whole transition
FadeDurationUncapped == settings.transitionDuration

\* FADE_DURATION = Math.min(2, settings.transitionDuration)
FadeDuration == Min(Sec(2), settings.transitionDuration)

SetValueAtTime(value, time) == [op |-> "set", value |-> value, time |-> time]

LinearRampToValueAtTime(value, time) ==
    [op |-> "ramp", value |-> value, time |-> time]

\* the gain floor 0.001
GainFloor == <<1, 1000>>

\* the calls on gainNode.gain, with times relative to audioCtx.currentTime
PlanEnvelope(totalSlideshowDuration, duration) ==
    IF FadeEngaged(totalSlideshowDuration, duration)
    THEN LET fadeStartTime == totalSlideshowDuration - FadeDuration IN
         <<SetValueAtTime(<<1, 1>>, 0)>>
         \o (IF fadeStartTime > 0
             THEN <<SetValueAtTime(<<1, 1>>, fadeStartTime)>>
             ELSE <<>>)
         \o <<LinearRampToValueAtTime(GainFloor, totalSlideshowDuration)>>
    ELSE <<>>

\* new MediaRecorder(...), handlers, recorder.start(), img.src = ... up to the
\* await of Promise.all; a throw of the constructor or of start() rejects the
\* promise of handleExport
StartRecorder(recorderOk) ==
    IF recorderOk
    THEN /\ recorder' = "recording"
         /\ loadedImages' = [i \in 1..Len(slides) |-> "pending"]
         /\ pc' = "imagesWait"
    ELSE /\ recorder' = "none"
         /\ loadedImages' = <<>>
         /\ pc' = "rejected"

handleExport(ctxOk, audioCtxOk, recorderOk) ==
    /\ lastEvent' = "export"
    /\ UNCHANGED <<slides, settings, musicUrl, musicBehavior, previewVars,
                   audioVars>>
    /\ IF ExportRefused
       THEN UNCHANGED exportVars
       ELSE IF ~ctxOk
       THEN \* setIsExporting(true); setExportProgress('Initialisation...');
            \* alert(...); setIsExporting(false); return
            /\ exportProgress' = InitProgress
            /\ UNCHANGED <<isExporting, audioMuted, pc, exportAudio,
                           envelopeVars, recorder, stopPending, loadedImages,
                           rafQueued, frame, drawn, stopCalls, artifact>>
       ELSE /\ isExporting' = TRUE
            /\ stopPending' = FALSE
            /\ rafQueued' = 0
            /\ frame' = 0
            /\ drawn' = <<>>
            /\ stopCalls' = 0
            /\ artifact' = "none"
            /\ exportAudioLoop' = FALSE
            /\ musicDuration' = NaN
            /\ gainEvents' = <<>>
            /\ UNCHANGED audioMuted
            /\ IF musicUrl /\ audioCtxOk
               THEN \* exportAudio = new Audio(musicUrl); await readiness
                    /\ exportAudio' = "loading"
                    /\ exportProgress' = InitProgress
                    /\ pc' = "audioWait"
                    /\ recorder' = "none"
                    /\ loadedImages' = <<>>
               ELSE /\ exportAudio' = ReleasedAudio
                    /\ exportProgress' =
                           IF musicUrl THEN AudioFailedProgress ELSE InitProgress
                    /\ StartRecorder(recorderOk)

\* the readiness promise settles: oncanplaythrough, onerror or the 10 s timer;
\* graphOk = FALSE: building the audio graph (lines 240-250) throws;
\* duration is the value exportAudio.duration has when it is read
audioWaitSettled(outcome, graphOk, recorderOk, duration) ==
    /\ pc = "audioWait"
    /\ IF outcome = "canplaythrough" /\ graphOk
       THEN /\ exportAudioLoop' = LoopFlag
            /\ audioMuted' = TRUE
            /\ exportAudio' = "playing"
            /\ musicDuration' = duration
            /\ gainEvents' =
                   PlanEnvelope(Len(slides) * (settings.slideDuration
                                               + settings.transitionDuration),
                                duration)
            /\ UNCHANGED exportProgress
       ELSE /\ exportProgress' = AudioFailedProgress
            /\ exportAudio' = ReleasedAudio
            /\ UNCHANGED <<audioMuted, envelopeVars>>
    /\ StartRecorder(recorderOk)
    /\ UNCHANGED <<slides, settings, musicUrl, musicBehavior, previewVars,
                   audioVars, lastEvent, isExporting, stopPending, rafQueued, frame,
                   drawn, stopCalls, artifact>>

\* variant: the wait ends with the first resolved image (Promise.race)
AnySettled(images) == \E j \in 1..Len(images) : images[j] # "pending"

\* await Promise.all(...): every image promise has resolved
AllSettled(images) == \A j \in 1..Len(images) : images[j] # "pending"

\* variant: onerror resolves with nothing
ResolvedImageOrNothing(event) == IF event = "load" THEN "img" ELSE "nothing"

\* img.onload = () => resolve(img); img.onerror = () => resolve(new Image())
ResolvedImage(event) == IF event = "load" THEN "img" ELSE "blank"

\* requestAnimationFrame(render): one more queued callback
requestAnimationFrame(queued) == queued + 1

\* variant: the counter skips a frame
SkipFrame(f) == f + 2

\* frame++
NextFrame(f) == f + 1

\* img.onload / img.onerror of slide i; the last one resolves Promise.all and
\* handleExport runs to its end: frame = 0; requestAnimationFrame(render)
imageSettled(i, event) ==
    /\ pc = "imagesWait"
    /\ i \in 1..Len(loadedImages)
    /\ loadedImages[i] = "pending"
    /\ loadedImages' = [loadedImages EXCEPT ![i] = ResolvedImage(event)]
    /\ IF AllSettled(loadedImages')
       THEN /\ pc' = "returned"
            /\ frame' = 0
            /\ rafQueued' = requestAnimationFrame(rafQueued)
       ELSE UNCHANGED <<pc, frame, rafQueued>>
    /\ UNCHANGED <<slides, settings, musicUrl, musicBehavior, previewVars,
                   audioVars, lastEvent, isExporting, exportProgress,
                   audioMuted, exportAudio, envelopeVars, recorder,
                   stopPending, drawn, stopCalls, artifact>>

\* the requestAnimationFrame callback
render ==
    /\ rafQueued > 0
    /\ LET elapsed == Elapsed(frame) IN
       IF TimelineEnded(elapsed, TotalDuration)
       THEN \* recorder.stop(); return
            /\ recorder' = "inactive"
            /\ stopPending' = TRUE
            /\ stopCalls' = stopCalls + 1
            /\ rafQueued' = rafQueued - 1
            /\ UNCHANGED <<exportProgress, frame, drawn>>
       ELSE /\ exportProgress' =
                   FrameProgress(SlideIndexAt(elapsed, Period), elapsed,
                                 TotalDuration)
            /\ drawn' = FrameDraws(elapsed)
            /\ frame' = NextFrame(frame)
            /\ rafQueued' = requestAnimationFrame(rafQueued - 1)
            /\ UNCHANGED <<recorder, stopPending, stopCalls>>
    /\ UNCHANGED <<slides, settings, musicUrl, musicBehavior, previewVars,
                   audioVars, lastEvent, isExporting, audioMuted, pc,
                   exportAudio, envelopeVars, loadedImages, artifact>>

\* variant: the preview position is kept
KeptTime(t) == t

\* audioRef.current.currentTime = 0
RewoundTime(t) == 0

\* variant: the preview audio keeps its muted flag
KeptMuted(muted) == muted

\* audioRef.current.muted = false
Unmuted(muted) == FALSE

\* recorder.onstop
recorderOnstop ==
    /\ stopPending
    /\ stopPending' = FALSE
    /\ artifact' = "saved"
    /\ isExporting' = FALSE
    /\ exportProgress' = NoProgress
    \* exportAudio.pause(); exportAudio = null: the element goes, and with it
    \* its loop flag, its duration and the gain schedule of its graph
    /\ exportAudio' = "none"
    /\ exportAudioLoop' = FALSE
    /\ musicDuration' = NaN
    /\ gainEvents' = <<>>
    /\ IF musicUrl
       THEN \* audioRef.current: pause(); currentTime = 0; muted = false; a
            \* pending play() promise is rejected: setIsPlaying(false)
            /\ audioPaused' = TRUE
            /\ audioCurrentTime' = RewoundTime(audioCurrentTime)
            /\ audioMuted' = Unmuted(audioMuted)
            /\ playPromise' = "none"
            /\ isPlaying' = IF playPromise = "pending" THEN FALSE ELSE isPlaying
            /\ UNCHANGED audioDuration
       ELSE UNCHANGED <<audioVars, audioMuted, isPlaying>>
    /\ UNCHANGED <<slides, settings, musicUrl, musicBehavior,
                   currentSlideIndex, lastEvent, pc, recorder, loadedImages,
                   rafQueued, frame, drawn, stopCalls>>

\* ------------------------------------------------------------------ Next
\* the editor and the export; the frame loop does not read the duration of
\* the track, which is drawn from FiniteDurations here
Next ==
    \/ \E k \in 1..MaxSlides : handleImageUpload(k)
    \/ handleMusicUpload
    \/ \E b \in MusicBehaviors : setMusicBehavior(b)
    \/ \E v \in SlideDurationValues : handleSettingsChange("slideDuration", v)
    \/ \E v \in TransitionDurationValues :
           handleSettingsChange("transitionDuration", v)
    \/ \E i \in 1..MaxSlides : handleRemoveSlide(i)
    \/ \E ctxOk, audioCtxOk, recorderOk \in BOOLEAN :
           handleExport(ctxOk, audioCtxOk, recorderOk)
    \/ \E outcome \in {"canplaythrough", "error", "timeout"} :
       \E graphOk, recorderOk \in BOOLEAN, duration \in FiniteDurations :
           audioWaitSettled(outcome, graphOk, recorderOk, duration)
    \/ \E i \in 1..MaxSlides, event \in {"load", "error"} :
           imageSettled(i, event)
    \/ render
    \/ recorderOnstop

Spec == Init /\ [][Next]_vars

\* requestAnimationFrame callbacks and the recorder's stop event are
\* delivered by the browser while the tab stays open
FairSpec ==
    /\ Spec
    /\ WF_vars(\E i \in 1..MaxSlides, event \in {"load", "error"} :
                   imageSettled(i, event))
    /\ WF_vars(render)
    /\ WF_vars(recorderOnstop)

\* the editor and the live preview, no export
PreviewNext ==
    \/ \E k \in 1..MaxSlides : handleImageUpload(k)
    \/ handleMusicUpload
    \/ \E v \in SlideDurationValues : handleSettingsChange("slideDuration", v)
    \/ \E v \in TransitionDurationValues :
           handleSettingsChange("transitionDuration", v)
    \/ \E i \in 1..MaxSlides : handleRemoveSlide(i)
    \/ \E duration \in TrackDurations \ {NaN} : loadedmetadata(duration)
    \/ handlePlayPause
    \/ playFulfilled
    \/ playRejected
    \/ advanceSlide

PreviewSpec == Init /\ [][PreviewNext]_vars

\* the preview timer fires when it stays armed for a whole period
FairPreviewSpec == PreviewSpec /\ WF_vars(advanceSlide)

\* the editor and the audio set-up of an export, up to recorder.start()
EnvelopeNext ==
    \/ \E k \in 1..MaxSlides : handleImageUpload(k)
    \/ handleMusicUpload
    \/ \E b \in MusicBehaviors : setMusicBehavior(b)
    \/ \E v \in SlideDurationValues : handleSettingsChange("slideDuration", v)
    \/ \E v \in TransitionDurationValues \cup LongTransitionValues :
           handleSettingsChange("transitionDuration", v)
    \/ \E i \in 1..MaxSlides : handleRemoveSlide(i)
    \/ \E ctxOk, audioCtxOk, recorderOk \in BOOLEAN :
           handleExport(ctxOk, audioCtxOk, recorderOk)
    \/ \E outcome \in {"canplaythrough", "error", "timeout"} :
       \E graphOk, recorderOk \in BOOLEAN, duration \in ReadyDurations :
           audioWaitSettled(outcome, graphOk, recorderOk, duration)

EnvelopeSpec == Init /\ [][EnvelopeNext]_vars

\* a session in which the preview is used and exports are made: the preview
\* timer and the preview audio go on under the export overlay; one value is
\* drawn for each input but the outcome of the audio context
SessionNext ==
    \/ \E k \in 1..MaxSlides : handleImageUpload(k)
    \/ handleMusicUpload
    \/ \E v \in {Sec(1)} : handleSettingsChange("slideDuration", v)
    \/ \E duration \in {Finite(Sec(8))} : loadedmetadata(duration)
    \/ handlePlayPause
    \/ playFulfilled
    \/ playRejected
    \/ advanceSlide
    \/ \E audioCtxOk \in BOOLEAN : handleExport(TRUE, audioCtxOk, TRUE)
    \/ \E duration \in FiniteDurations :
           audioWaitSettled("canplaythrough", TRUE, TRUE, duration)
    \/ \E i \in 1..MaxSlides : imageSettled(i, "load")
    \/ render
    \/ recorderOnstop

SessionSpec == Init /\ [][SessionNext]_vars

\* drawSlideWithMotion as a function of the motion and of progress: one slide
\* of any motion with its image decoded
TransformInit ==
    /\ \E motion \in Motions : slides = <<motion>>
    /\ settings = [slideDuration |-> Sec(4), transitionDuration |-> Sec(1)]
    /\ musicUrl = FALSE
    /\ musicBehavior = "loop"
    /\ isPlaying = FALSE
    /\ currentSlideIndex = 0
    /\ isExporting = FALSE
    /\ exportProgress = NoProgress
    /\ audioMuted = FALSE
    /\ audioPaused = TRUE
    /\ audioCurrentTime = 0
    /\ playPromise = "none"
    /\ audioDuration = NaN
    /\ lastEvent = "upload"
    /\ pc = "idle"
    /\ exportAudio = "none"
    /\ exportAudioLoop = FALSE
    /\ musicDuration = NaN
    /\ gainEvents = <<>>
    /\ recorder = "none"
    /\ stopPending = FALSE
    /\ loadedImages = <<"img">>
    /\ rafQueued = 0
    /\ frame = 0
    /\ drawn = <<>>
    /\ stopCalls = 0
    /\ artifact = "none"

\* drawSlideWithMotion(ctx, WIDTH, HEIGHT, slides[0], loadedImages[0], progress)
drawAtProgress(k) ==
    /\ drawn' = <<drawSlideWithMotion(0, <<k, ProgressSteps>>, One)>>
    /\ UNCHANGED <<slides, settings, musicUrl, musicBehavior, previewVars,
                   audioVars, lastEvent, isExporting, exportProgress,
                   audioMuted, pc, exportAudio, envelopeVars, recorder,
                   stopPending, loadedImages, rafQueued, frame, stopCalls,
                   artifact>>

TransformNext == \E k \in 0..ProgressSteps : drawAtProgress(k)

TransformSpec == TransformInit /\ [][TransformNext]_vars

\* =================================================================
\* Properties
\* =================================================================

\* a/b = c/d for ratios with positive denominators
RatEq(r, q) == r[1] * q[2] = q[1] * r[2]

\* the frame loop of the current export has been started
InFrameLoop == isExporting /\ pc = "returned"

\* time of the frame whose drawing calls are in drawn (defined when frame > 0)
LastElapsed == Elapsed(frame - 1)

LastSlideIndex == LastElapsed \div Period

LastTimeInPeriod == LastElapsed % Period

\* a frame has been rendered in the current export
FrameRendered == InFrameLoop /\ frame > 0

\* first frame counter n with n/FPS >= slideCount * period
FirstEndFrame ==
    (TotalDuration * FPS + TicksPerSecond - 1) \div TicksPerSecond

\* ------------------------------------------------------------------ C1
C1_Safety ==
    InFrameLoop =>
        /\ Len(slides) >= 1 /\ Period > 0
        /\ frame <= FirstEndFrame
        /\ stopCalls <= 1
        /\ (stopCalls = 1) = ~rafPending
        /\ (stopCalls = 1) => frame = FirstEndFrame
        /\ (frame > 0) => drawn # <<>>

C1_Step ==
    /\ (InFrameLoop /\ frame' # frame) =>
           /\ frame' = frame + 1
           /\ Elapsed(frame) < TotalDuration
           /\ drawn' # <<>>
           /\ stopCalls' = 0
    /\ (stopCalls' # stopCalls /\ stopCalls' # 0) =>
           /\ stopCalls = 0 /\ stopCalls' = 1
           /\ frame' = frame
           /\ Elapsed(frame) >= TotalDuration
           /\ recorder = "recording" /\ recorder' = "inactive"

\* C1: once the frame loop of an export with slideCount >= 1 and period > 0
\* runs, every frame with elapsed < totalDuration is rendered, none with
\* elapsed >= totalDuration is, and the encoder is eventually stopped, exactly
\* once, at the first frame counter n with n/FPS >= slideCount * period.
C1_LoopStopsAtEnd ==
    /\ []C1_Safety
    /\ [][C1_Step]_vars
    /\ ((InFrameLoop /\ rafPending) ~> (stopCalls = 1 /\ frame = FirstEndFrame))

C1_Witness ==
    InFrameLoop /\ stopCalls = 1 /\ frame = FirstEndFrame /\ frame >= FPS

\* ------------------------------------------------------------------ C2
\* C2: a rendered frame whose time in the period is below slideDuration (or
\* whose export has transitionDuration = 0) is a single, unblended drawing of
\* slide floor(elapsed / period) at progress (elapsed mod period) / slideDuration.
C2_SteadyFrame ==
    (FrameRendered /\ ( \/ LastTimeInPeriod < settings.slideDuration
                        \/ settings.transitionDuration = 0 )) =>
        /\ Len(drawn) = 1
        /\ drawn[1].slide = LastSlideIndex
        /\ RatEq(drawn[1].progress, <<LastTimeInPeriod, settings.slideDuration>>)
        /\ RatEq(drawn[1].alpha, One)

C2_Witness ==
    /\ FrameRendered
    /\ LastTimeInPeriod < settings.slideDuration
    /\ LastTimeInPeriod > 0
    /\ LastSlideIndex = 1
    /\ Len(drawn) = 1

\* ------------------------------------------------------------------ C3
\* C3: a rendered frame in the transition part of a period (time in period >=
\* slideDuration, transitionDuration > 0) of a slide that has a successor draws
\* the slide at progress 1 and then its successor at progress 0 with blend
\* alpha ((elapsed mod period) - slideDuration) / transitionDuration.
C3_TransitionFrame ==
    (/\ FrameRendered
     /\ LastTimeInPeriod >= settings.slideDuration
     /\ settings.transitionDuration > 0
     /\ LastSlideIndex + 1 < Len(slides)) =>
        /\ Len(drawn) = 2
        /\ drawn[1].slide = LastSlideIndex
        /\ RatEq(drawn[1].progress, One)
        /\ RatEq(drawn[1].alpha, One)
        /\ drawn[2].slide = LastSlideIndex + 1
        /\ RatEq(drawn[2].progress, Zero)
        /\ RatEq(drawn[2].alpha,
                 <<LastTimeInPeriod - settings.slideDuration,
                   settings.transitionDuration>>)

C3_Witness ==
    /\ FrameRendered
    /\ LastTimeInPeriod > settings.slideDuration
    /\ settings.transitionDuration > 0
    /\ LastSlideIndex + 1 < Len(slides)
    /\ Len(drawn) = 2

\* ------------------------------------------------------------------ C4
\* C4: a rendered frame in the transition part of the last slide's period is
\* a single drawing of the last slide at progress 1; no other slide is drawn.
C4_LastSlideHeld ==
    (/\ FrameRendered
     /\ LastTimeInPeriod >= settings.slideDuration
     /\ settings.transitionDuration > 0
     /\ LastSlideIndex + 1 >= Len(slides)) =>
        /\ Len(drawn) = 1
        /\ drawn[1].slide = LastSlideIndex
        /\ drawn[1].slide = Len(slides) - 1
        /\ RatEq(drawn[1].progress, One)
        /\ RatEq(drawn[1].alpha, One)

C4_Witness ==
    /\ FrameRendered
    /\ LastTimeInPeriod > settings.slideDuration
    /\ settings.transitionDuration > 0
    /\ LastSlideIndex + 1 = Len(slides)
    /\ Len(slides) >= 2
    /\ Len(drawn) = 1

\* ------------------------------------------------------------------ C5
\* export of 3 slides with slideDuration 4 s and transitionDuration 1 s
Example5 ==
    /\ InFrameLoop
    /\ Len(slides) = 3
    /\ settings.slideDuration = Sec(4)
    /\ settings.transitionDuration = Sec(1)

\* the frame at time t (in ticks) has just been rendered
JustRendered(t) == frame > 0 /\ LastElapsed = t

IsSteady(i, p) ==
    Len(drawn) = 1 /\ drawn[1].slide = i /\ RatEq(drawn[1].progress, p)

IsTransition(i, j, p) ==
    /\ Len(drawn) = 2
    /\ drawn[1].slide = i /\ RatEq(drawn[1].progress, One)
    /\ drawn[2].slide = j /\ RatEq(drawn[2].progress, Zero)
    /\ RatEq(drawn[2].alpha, p)

\* locate(0), locate(4.5) and locate(15) of the example
Example5_Rest ==
    /\ (Example5 /\ JustRendered(0)) => IsSteady(0, Zero)
    /\ (Example5 /\ JustRendered(Sec(4) + HalfSec(1))) =>
           IsTransition(0, 1, <<1, 2>>)
    /\ Example5 => frame <= 15 * FPS
    /\ (Example5 /\ frame = 15 * FPS) =>
           (~rafPending => stopCalls = 1 /\ JustRendered(Sec(15) - 2))

\* 14.9 s = 447 frames = 894 ticks
T14_9 == Sec(15) - 6

\* C5 as stated: locate(14.9) is Steady(2, p) with p within 0.005 of 0.975
C5_AsStated ==
    /\ Example5_Rest
    /\ (Example5 /\ JustRendered(T14_9)) =>
           /\ Len(drawn) = 1
           /\ drawn[1].slide = 2
           /\ 970 * drawn[1].progress[2] <= 1000 * drawn[1].progress[1]
           /\ 1000 * drawn[1].progress[1] <= 980 * drawn[1].progress[2]

\* C5 (amended): with 3 slides, slideDuration 4 and transitionDuration 1,
\* locate(0) = Steady(0, 0), locate(4.5) = Transitioning(0, 1, 0.5),
\* locate(14.9) = Steady(2, 1) (the last slide held at progress 1), and
\* locate(15) = End.
C5_Example ==
    /\ Example5_Rest
    /\ (Example5 /\ JustRendered(T14_9)) => IsSteady(2, One)

C5_Witness == Example5 /\ JustRendered(T14_9) /\ rafPending

\* ------------------------------------------------------------------ C6
\* C6: in an export with transitionDuration = 0 every rendered frame is a
\* single unblended drawing of slide floor(elapsed / period): the two-slide
\* blending branch is never taken.
C6_NoBlendWithoutTransition ==
    (FrameRendered /\ settings.transitionDuration = 0) =>
        /\ Len(drawn) = 1
        /\ drawn[1].slide = LastSlideIndex
        /\ RatEq(drawn[1].alpha, One)

C6_Witness ==
    /\ FrameRendered
    /\ settings.transitionDuration = 0
    /\ Len(slides) >= 2
    /\ LastSlideIndex = 0
    /\ LastTimeInPeriod = settings.slideDuration - 2
    /\ Len(drawn) = 1

\* ------------------------------------------------------------------ C7
\* C7: while there are no slides the export state is idle and no step, an
\* export request included, starts an export: isExporting stays false, no
\* encoder is created or started, no export audio is created and no frame is
\* rendered.
C7_NoExportWithoutSlides ==
    [][ (Len(slides) = 0) =>
            /\ ~isExporting /\ ~isExporting'
            /\ pc' = pc
            /\ recorder' = recorder /\ recorder' # "recording"
            /\ exportAudio' = exportAudio /\ exportAudio' = "none"
            /\ ~rafPending'
            /\ frame' = frame /\ drawn' = drawn ]_vars

C7_Witness ==
    Len(slides) = 0 /\ lastEvent = "export" /\ ~isExporting /\ musicUrl

\* ------------------------------------------------------------------ C8
\* stage of the export state machine the program is in
Stage ==
    IF ~isExporting THEN (IF artifact = "saved" THEN "Done" ELSE "Idle")
    ELSE IF pc = "rejected" THEN "Halted"
    ELSE IF pc \in {"audioWait", "imagesWait"} THEN "Initializing"
    ELSE IF rafPending THEN "Rendering"
    ELSE "Finalizing"

\* Halted: handleExport threw during initialisation and the run stays there
StageOrder ==
    {<<"Idle", "Initializing">>, <<"Done", "Initializing">>,
     <<"Initializing", "Rendering">>, <<"Rendering", "Finalizing">>,
     <<"Finalizing", "Done">>,
     <<"Idle", "Halted">>, <<"Done", "Halted">>, <<"Initializing", "Halted">>}

C8_Step ==
    /\ (Stage' # Stage) => <<Stage, Stage'>> \in StageOrder
    /\ (frame' = frame + 1) =>
           /\ Stage = "Rendering" /\ Stage' = "Rendering"
           /\ recorder = "recording"
           /\ Len(loadedImages) = Len(slides)
           /\ \A i \in 1..Len(slides) : loadedImages[i] \in {"img", "blank"}
           /\ stopCalls = 0
    /\ (isExporting /\ ~isExporting') =>
           /\ Stage = "Finalizing"
           /\ stopPending /\ ~stopPending'
           /\ artifact' = "saved"

\* C8: an export run moves through Idle, Initializing, Rendering, Finalizing,
\* Done in that order only; a frame is rendered only while the encoder is
\* recording, all slide images are resolved and stop has not been called; and
\* isExporting returns to false only in the encoder's completion callback.
C8_StageOrder == [][C8_Step]_vars

C8_Witness == Stage = "Done" /\ frame = FirstEndFrame /\ frame > 0 /\ musicUrl

\* ------------------------------------------------------------------ C9
\* C9 (as stated): when the encoder cannot be constructed or started, the
\* export returns to idle with isExporting false, the export audio stopped and
\* released and no encoder left recording.
C9_FailureReleases ==
    (pc = "rejected") =>
        /\ ~isExporting
        /\ exportAudio = "none"
        /\ recorder # "recording"
        /\ ~audioMuted

\* ------------------------------------------------------------------ C10
\* the state an abort has to leave: no frame or stop event pending, encoder not
\* recording, export audio and decoded images released, nothing downloaded
Aborted ==
    /\ ~isExporting
    /\ ~rafPending /\ ~stopPending
    /\ recorder # "recording"
    /\ exportAudio = "none"
    /\ artifact = "none"

\* C10 (as stated): between any two frames of the frame loop a step exists
\* that aborts the export.
C10_AbortBetweenFrames ==
    (InFrameLoop /\ rafPending /\ frame > 0) => ENABLED (Next /\ Aborted')

\* ------------------------------------------------------------------ C13
\* a step of handlePlayPause that starts the preview with a music element
StartsPlayback ==
    /\ lastEvent' = "playPause"
    /\ ~isPlaying /\ isPlaying'
    /\ musicUrl

PreviewPeriod == settings.slideDuration + settings.transitionDuration

DurationKnown == audioDuration.kind = "finite" /\ audioDuration.ticks > 0

C13_Step ==
    StartsPlayback =>
        /\ DurationKnown =>
               /\ audioCurrentTime' =
                      (currentSlideIndex * PreviewPeriod) % audioDuration.ticks
               /\ audioCurrentTime' >= 0
               /\ audioCurrentTime' < audioDuration.ticks
        /\ ~DurationKnown => audioCurrentTime' = 0
        /\ ( /\ currentSlideIndex = 2
             /\ PreviewPeriod = Sec(5)
             /\ audioDuration = Finite(Sec(12)) ) =>
               audioCurrentTime' = Sec(10)

\* C13: when the preview is started, the position of the music is set to
\* (currentSlideIndex * period) mod trackDuration if the track duration is
\* known and finite, and to 0 otherwise; it lies in [0, trackDuration); index
\* 2, period 5 s and a 12 s track give 10 s.
C13_StartOffset == [][C13_Step]_vars

\* started on the third slide, period 5 s, 8 s track: 10 s wraps to 2 s
C13_Witness ==
    /\ lastEvent = "playPause" /\ isPlaying /\ playPromise = "pending"
    /\ currentSlideIndex = 2
    /\ PreviewPeriod = Sec(5)
    /\ audioDuration = Finite(Sec(8))
    /\ audioCurrentTime = Sec(2)

\* ------------------------------------------------------------------ C16
C16_Step ==
    (currentSlideIndex' # currentSlideIndex /\ Len(slides') = Len(slides)) =>
        /\ isPlaying
        /\ Len(slides) >= 2
        /\ currentSlideIndex' = (currentSlideIndex + 1) % Len(slides)

C16_Visits ==
    \A n \in 2..MaxSlides : \A i \in 0..(n - 1) :
        (isPlaying /\ Len(slides) = n /\ currentSlideIndex = i)
            ~> ( \/ ~isPlaying
                 \/ Len(slides) # n
                 \/ currentSlideIndex = (i + 1) % n )

\* C16: the current index of the preview changes, the slide list staying the
\* same, only while playing with at least two slides, and then to
\* (index + 1) mod slideCount; while the preview keeps playing the same list
\* every slide is followed by its cyclic successor.
C16_TimerAdvance == [][C16_Step]_vars /\ C16_Visits

\* the timer has just wrapped from the last slide to the first
C16_Witness ==
    /\ lastEvent = "timer"
    /\ isPlaying
    /\ Len(slides) = 3
    /\ currentSlideIndex = 0

\* ------------------------------------------------------------------ C14
RECURSIVE GCD(_, _)
GCD(a, b) == IF b = 0 THEN a ELSE GCD(b, a % b)

\* a ratio with a positive denominator in lowest terms
Reduced(r) == LET g == GCD(r[1], r[2]) IN <<r[1] \div g, r[2] \div g>>

\* value of an AudioParam at time t after the scheduled events (in scheduling
\* order, times non-decreasing): 1 before the first event; a ramp is a
\* straight line from the previous event to the ramp's value at the ramp's
\* time; otherwise the value of the last event at or before t is held
GainAt(events, t) ==
    LET past == {i \in 1..Len(events) : events[i].time <= t}
        coming == {i \in 1..Len(events) : events[i].time > t}
    IN  IF past = {} THEN <<1, 1>>
        ELSE LET i == CHOOSE k \in past : \A m \in past : m <= k
                 v0 == events[i].value
                 t0 == events[i].time
             IN  IF coming # {}
                    /\ events[CHOOSE k \in coming :
                                  \A m \in coming : k <= m].op = "ramp"
                 THEN LET j == CHOOSE k \in coming : \A m \in coming : k <= m
                          v1 == events[j].value
                          t1 == events[j].time
                      IN  Reduced(<<v0[1] * v1[2] * (t1 - t0)
                                      + (v1[1] * v0[2] - v0[1] * v1[2])
                                        * (t - t0),
                                    v0[2] * v1[2] * (t1 - t0)>>)
                 ELSE Reduced(v0)

\* an export whose audio was set up in fade mode with a track of known length
\* longer than the slideshow
FadeCase ==
    /\ isExporting
    /\ exportAudio = "playing"
    /\ musicBehavior = "fade"
    /\ musicDuration.kind = "finite"
    /\ Len(slides) * (settings.slideDuration + settings.transitionDuration)
           < musicDuration.ticks

\* C14: in fade mode with totalSlideshowDuration < trackDuration, with
\* fadeDuration = min(2 s, transitionDuration) and fadeStart = total -
\* fadeDuration: the planned gain is 1 at every time in [0, fadeStart], then a
\* straight line down to a floor in (0, 0.01] reached at total (a fade of
\* length 0 drops to the floor at total); with fadeStart <= 0 the line starts
\* at time 0; total 10 s and transition 1 s give fadeStart 9 s.
C14_FadeEnvelope ==
    FadeCase =>
        LET total == Len(slides) * (settings.slideDuration
                                    + settings.transitionDuration)
            fadeDuration == IF settings.transitionDuration < Sec(2)
                            THEN settings.transitionDuration ELSE Sec(2)
            fadeStart == total - fadeDuration
            rampStart == IF fadeStart > 0 THEN fadeStart ELSE 0
            floor == GainAt(gainEvents, total)
        IN  /\ gainEvents # <<>>
            /\ \A t \in 0..total :
                   (t <= fadeStart /\ t < total) =>
                       GainAt(gainEvents, t) = <<1, 1>>
            /\ floor[1] > 0 /\ 100 * floor[1] <= floor[2]
            /\ \A t \in rampStart..total :
                   (total > rampStart) =>
                       GainAt(gainEvents, t)
                         = Reduced(<<floor[2] * (total - rampStart)
                                       - (floor[2] - floor[1]) * (t - rampStart),
                                     floor[2] * (total - rampStart)>>)
            /\ (total = Sec(10) /\ settings.transitionDuration = Sec(1)) =>
                   /\ fadeStart = Sec(9)
                   /\ \E i \in 1..Len(gainEvents) :
                          /\ gainEvents[i].time = Sec(9)
                          /\ gainEvents[i].op = "set"
                   /\ GainAt(gainEvents, Sec(9) + 30) = <<1001, 2000>>

\* the example: two slides of 4 s + 1 s, a 20 s track
C14_Witness ==
    /\ FadeCase
    /\ Len(slides) = 2
    /\ settings.slideDuration = Sec(4)
    /\ settings.transitionDuration = Sec(1)
    /\ musicDuration = Finite(Sec(20))
    /\ Len(gainEvents) = 3

\* ------------------------------------------------------------------ C15
\* C15 (as stated): gain changes are scheduled only in fade mode with a track
\* of known, finite length longer than the slideshow; otherwise none is
\* scheduled; and the export track loops exactly in loop mode.
C15_FadeOnlyWhenShorter ==
    (isExporting /\ exportAudio = "playing") =>
        /\ (gainEvents # <<>>) =
               ( /\ musicBehavior = "fade"
                 /\ musicDuration.kind = "finite"
                 /\ Len(slides) * (settings.slideDuration
                                   + settings.transitionDuration)
                        < musicDuration.ticks )
        /\ exportAudioLoop = (musicBehavior = "loop")

\* ------------------------------------------------------------------ C11
\* the catch of the audio set-up runs in this step
AudioSetupFails ==
    exportProgress' = AudioFailedProgress /\ exportProgress # exportProgress'

\* an export of a slideshow with music that goes on without export audio
SilentRun ==
    /\ isExporting /\ musicUrl
    /\ pc \in {"imagesWait", "returned"}
    /\ exportAudio = "none"

C11_Step ==
    /\ AudioSetupFails =>
           /\ musicUrl
           /\ exportAudio' = "none"
           /\ gainEvents' = <<>>
           /\ audioMuted' = audioMuted
           /\ isExporting'
           /\ \/ pc' = "imagesWait" /\ recorder' = "recording"
              \/ pc' = "rejected"
    /\ (pc = "audioWait" /\ pc' # pc) =>
           \/ exportAudio' = "playing"
           \/ AudioSetupFails
    /\ (SilentRun /\ isExporting') => SilentRun'

\* C11: when the audio set-up of an export fails (load error, timeout, or the
\* audio context or graph throws), the export audio is dropped and, the
\* encoder having started, the export goes on without audio: every frame is
\* rendered and the export reaches Done.
C11_AudioFailureNotFatal ==
    /\ [][C11_Step]_vars
    /\ (SilentRun ~> (~isExporting /\ artifact = "saved"
                         /\ frame = FirstEndFrame))

\* all frames of an export whose audio set-up failed are rendered
C11_Witness ==
    /\ SilentRun
    /\ stopCalls = 1 /\ frame = FirstEndFrame
    /\ Len(slides) = 2

\* ------------------------------------------------------------------ C12
\* the step of recorder.onstop
StopCompletes == stopPending /\ ~stopPending'

C12_Step ==
    StopCompletes =>
        /\ exportAudio' = "none"
        /\ audioPaused'
        /\ audioCurrentTime' = 0
        /\ ~audioMuted'
        /\ playPromise' = "none"
        /\ ~isExporting'
        /\ exportProgress' = NoProgress
        /\ artifact' = "saved"

\* C12: the completion callback of the encoder drops the export audio, leaves
\* the preview audio paused, at position 0 and unmuted, and ends the export
\* (isExporting false, progress text empty, file saved), with or without
\* export audio.
C12_StopCleansUp == [][C12_Step]_vars

\* an export made while the preview was playing from a later slide has ended
C12_Witness ==
    /\ ~isExporting /\ artifact = "saved" /\ lastEvent \in {"export", "timer"}
    /\ musicUrl
    /\ isPlaying
    /\ audioPaused /\ audioCurrentTime = 0 /\ ~audioMuted

\* ------------------------------------------------------------------ C17
C17_Report ==
    (isExporting /\ exportProgress.kind = "frame") =>
        /\ FrameRendered
        /\ exportProgress.slide = LastSlideIndex + 1
        /\ exportProgress.slide \in 1..Len(slides)
        /\ exportProgress.of = Len(slides)
        /\ exportProgress.pct \in 0..100
        \* pct is elapsed / totalDuration in percent, rounded
        /\ 2 * (exportProgress.pct * TotalDuration - 100 * LastElapsed)
               <= TotalDuration
        /\ 2 * (100 * LastElapsed - exportProgress.pct * TotalDuration)
               <= TotalDuration

C17_Step ==
    /\ (isExporting /\ frame' = frame + 1) => exportProgress'.kind = "frame"
    /\ (isExporting /\ exportProgress.kind = "frame"
          /\ exportProgress'.kind = "frame") =>
           /\ exportProgress'.slide >= exportProgress.slide
           /\ exportProgress'.pct >= exportProgress.pct

\* C17: every rendered frame reports the 1-based number of its slide, in
\* 1..slideCount, and the rounded percentage of elapsed / totalDuration, in
\* 0..100; from one frame of an export to the next neither decreases.
C17_ProgressReport == []C17_Report /\ [][C17_Step]_vars

\* the last frames of three slides are reported as slide 3, 100 %
C17_Witness ==
    /\ FrameRendered
    /\ exportProgress.kind = "frame"
    /\ exportProgress.slide = 3
    /\ exportProgress.pct = 100

\* ------------------------------------------------------------------ C18
C18_Safety ==
    /\ \A i \in 1..Len(loadedImages) :
           loadedImages[i] \in {"pending", "img", "blank"}
    /\ (isExporting /\ pc \in {"imagesWait", "returned"}) =>
           Len(loadedImages) = Len(slides)
    /\ (isExporting /\ (rafPending \/ frame > 0 \/ stopCalls > 0)) =>
           /\ pc = "returned"
           /\ \A i \in 1..Len(slides) : loadedImages[i] \in {"img", "blank"}

C18_Step ==
    \* an image is decoded only before the first frame, and only once
    /\ (isExporting /\ isExporting' /\ pc \in {"imagesWait", "returned"}
          /\ loadedImages' # loadedImages) =>
           /\ pc = "imagesWait" /\ frame = 0 /\ ~rafPending /\ drawn = <<>>
           /\ \E i \in 1..Len(slides) :
                  /\ loadedImages[i] = "pending"
                  /\ loadedImages'[i] \in {"img", "blank"}
                  /\ \A j \in 1..Len(slides) :
                         j # i => loadedImages'[j] = loadedImages[j]
    \* no image outcome takes the export out of its course
    /\ (isExporting /\ loadedImages' # loadedImages
          /\ pc = "imagesWait") =>
           isExporting' /\ pc' \in {"imagesWait", "returned"}

\* C18: the images of all slides are resolved, each once, before the first
\* frame is rendered, a decode error giving a blank image; there is one entry
\* per slide; whatever the outcomes, the export renders every frame and
\* reaches Done.
C18_ImagesDecodedOnce ==
    /\ []C18_Safety
    /\ [][C18_Step]_vars
    /\ ((isExporting /\ pc = "imagesWait")
           ~> (~isExporting /\ artifact = "saved" /\ frame = FirstEndFrame))

\* all frames rendered with one image decoded and one blank
C18_Witness ==
    /\ InFrameLoop /\ stopCalls = 1 /\ frame = FirstEndFrame
    /\ \E i, j \in 1..Len(slides) :
           loadedImages[i] = "blank" /\ loadedImages[j] = "img"

\* ------------------------------------------------------------------ C20
C20_Queue ==
    /\ rafQueued \in {0, 1}
    /\ InFrameLoop => frame >= 0
    /\ (isExporting /\ pc = "imagesWait") => (frame = 0 /\ rafQueued = 0)

C20_Step ==
    \* the loop starts at frame 0 with one callback queued
    /\ (isExporting /\ pc = "imagesWait" /\ pc' = "returned") =>
           frame' = 0 /\ rafQueued' = 1
    \* a callback that does not stop the encoder renders one frame
    /\ (InFrameLoop /\ InFrameLoop' /\ rafPending
          /\ stopCalls' = stopCalls) =>
           /\ frame' = frame + 1
           /\ Elapsed(frame') > Elapsed(frame)
           /\ rafQueued' = 1
           /\ drawn' # <<>>
    \* the counter moves in no other way during the loop
    /\ (InFrameLoop /\ InFrameLoop' /\ frame' # frame) =>
           rafPending /\ frame' = frame + 1

\* C20: the frame counter of an export starts at 0 and goes up by exactly 1
\* with each rendered frame, the elapsed time strictly increasing; a frame is
\* rendered by the single pending render callback, which queues the next one
\* only after the frame is drawn: never more than one callback is pending.
C20_FrameCounter == []C20_Queue /\ [][C20_Step]_vars

C20_Witness == InFrameLoop /\ frame = 2 /\ rafQueued = 1 /\ Len(drawn) = 1

\* ------------------------------------------------------------------ C19
\* a/b < c/d for ratios with positive denominators
RatLess(r, q) == r[1] * q[2] < q[1] * r[2]

\* 5 % of the frame width and height, in pixels
PanX == <<WIDTH, 20>>

PanY == <<HEIGHT, 20>>

\* lo + (hi - lo) * n / d
Lerp(lo, hi, n, d) ==
    <<lo[1] * hi[2] * (d - n) + hi[1] * lo[2] * n, lo[2] * hi[2] * d>>

Neg(r) == <<0 - r[1], r[2]>>

C19_Rules ==
    \A c \in {drawn[i] : i \in 1..Len(drawn)} :
        LET n == c.progress[1]
            d == c.progress[2]
            t == c.transform
            still(r) == RatEq(r, Zero)
        IN  /\ c.motion = "none" =>
                   /\ RatEq(t.scale, One)
                   /\ still(t.dx) /\ still(t.dy) /\ still(t.rotation)
            /\ c.motion = "zoom-in" =>
                   /\ RatEq(t.scale, Lerp(One, <<115, 100>>, n, d))
                   /\ still(t.dx) /\ still(t.dy) /\ still(t.rotation)
            /\ c.motion = "zoom-out" =>
                   /\ RatEq(t.scale, Lerp(<<115, 100>>, One, n, d))
                   /\ still(t.dx) /\ still(t.dy) /\ still(t.rotation)
            /\ c.motion = "pan-left" =>
                   /\ RatEq(t.scale, <<115, 100>>)
                   /\ RatEq(t.dx, Lerp(PanX, Neg(PanX), n, d))
                   /\ still(t.dy) /\ still(t.rotation)
            /\ c.motion = "pan-right" =>
                   /\ RatEq(t.scale, <<115, 100>>)
                   /\ RatEq(t.dx, Lerp(Neg(PanX), PanX, n, d))
                   /\ still(t.dy) /\ still(t.rotation)
            /\ c.motion = "pan-up" =>
                   /\ RatEq(t.scale, <<115, 100>>)
                   /\ RatEq(t.dy, Lerp(PanY, Neg(PanY), n, d))
                   /\ still(t.dx) /\ still(t.rotation)
            /\ c.motion = "pan-down" =>
                   /\ RatEq(t.scale, <<115, 100>>)
                   /\ RatEq(t.dy, Lerp(Neg(PanY), PanY, n, d))
                   /\ still(t.dx) /\ still(t.rotation)
            /\ c.motion = "rotate" =>
                   /\ RatEq(t.scale, <<120, 100>>)
                   /\ RatEq(t.rotation, Lerp(<<0 - 1, 1>>, One, n, d))
                   /\ still(t.dx) /\ still(t.dy)

\* the same slide drawn at a smaller and then at a larger progress
C19_Step ==
    (/\ Len(drawn) = 1 /\ Len(drawn') = 1
     /\ drawn[1].motion = drawn'[1].motion
     /\ RatLess(drawn[1].progress, drawn'[1].progress)) =>
        LET m == drawn[1].motion
            a == drawn[1].transform
            b == drawn'[1].transform
        IN  /\ m = "zoom-in" => RatLess(a.scale, b.scale)
            /\ m = "zoom-out" => RatLess(b.scale, a.scale)
            /\ m = "pan-left" => RatLess(b.dx, a.dx)
            /\ m = "pan-right" => RatLess(a.dx, b.dx)
            /\ m = "pan-up" => RatLess(b.dy, a.dy)
            /\ m = "pan-down" => RatLess(a.dy, b.dy)
            /\ m = "rotate" => RatLess(a.rotation, b.rotation)

\* C19: none draws at scale 1 without offset or rotation; zoom-in scales by
\* 1 + 0.15 * progress and zoom-out by 1.15 - 0.15 * progress; the four pans
\* keep scale 1.15 and move dx (left, right) or dy (up, down) on a straight
\* line between + and - 5 % of the frame width or height, left and up
\* downwards, right and down upwards; rotate keeps scale 1.2 and turns by
\* (progress - 0.5) * 2 degrees; each is strictly monotonic in progress.
C19_MotionTransform == []C19_Rules /\ [][C19_Step]_vars

\* pan-left at progress 1: 64 pixels to the left
C19_Witness ==
    /\ Len(drawn) = 1
    /\ drawn[1].motion = "pan-left"
    /\ drawn[1].progress = <<ProgressSteps, ProgressSteps>>
    /\ RatEq(drawn[1].transform.dx, <<0 - 64, 1>>)
    /\ pc = "idle"

\* ----------------------------------------------------------------- C21
\* C21: for every rendered frame the slide index floor(elapsed / period) lies
\* in 0..slideCount-1 without wrap-around, the successor index is read only
\* when it is below slideCount, and every index used on the slide list and on
\* the decoded images is within range.
C21_IndicesInRange ==
    FrameRendered =>
        /\ LastElapsed < TotalDuration
        /\ LastSlideIndex \in 0..(Len(slides) - 1)
        /\ Len(loadedImages) = Len(slides)
        /\ Len(drawn) \in {1, 2}
        /\ drawn[1].slide = LastSlideIndex
        /\ (Len(drawn) = 2) =>
               /\ drawn[2].slide = LastSlideIndex + 1
               /\ drawn[2].slide < Len(slides)
        /\ \A k \in DOMAIN drawn :
               /\ drawn[k].slide + 1 \in DOMAIN slides
               /\ drawn[k].slide + 1 \in DOMAIN loadedImages
               /\ drawn[k].motion = slides[drawn[k].slide + 1]
               /\ drawn[k].image = loadedImages[drawn[k].slide + 1]

C21_Witness ==
    /\ FrameRendered
    /\ Len(slides) = 3
    /\ Len(drawn) = 2
    /\ drawn[2].slide = Len(slides) - 1

\* ----------------------------------------------------------------- C22
\* slideDuration * FPS and transitionDuration * FPS are integers
WholeFrames ==
    /\ (settings.slideDuration * FPS) % TicksPerSecond = 0
    /\ (settings.transitionDuration * FPS) % TicksPerSecond = 0

\* slideDuration * FPS
SteadyFrames == (settings.slideDuration * FPS) \div TicksPerSecond

\* transitionDuration * FPS
TransitionFrames == (settings.transitionDuration * FPS) \div TicksPerSecond

\* period * FPS
FramesPerPeriod == SteadyFrames + TransitionFrames

\* number of the frame whose drawing calls are in drawn, and its place in
\* the frames of its slide
LastFrame == frame - 1

FrameInPeriod == LastFrame % FramesPerPeriod

C22_Frames ==
    (InFrameLoop /\ WholeFrames) =>
        /\ frame <= Len(slides) * FramesPerPeriod
        /\ (stopCalls = 1) => frame = Len(slides) * FramesPerPeriod
        /\ (frame > 0) =>
               /\ drawn # <<>>
               /\ drawn[1].slide = LastFrame \div FramesPerPeriod
               /\ (FrameInPeriod < SteadyFrames) =>
                      /\ Len(drawn) = 1
                      /\ RatEq(drawn[1].progress,
                               <<FrameInPeriod, SteadyFrames>>)
               /\ (FrameInPeriod >= SteadyFrames) =>
                      /\ RatEq(drawn[1].progress, One)
                      /\ (Len(drawn) = 2) =
                             (drawn[1].slide + 1 < Len(slides))

C22_Step ==
    (InFrameLoop /\ InFrameLoop' /\ WholeFrames /\ frame > 0
       /\ frame' # frame) =>
        /\ frame' = frame + 1
        /\ drawn'[1].slide >= drawn[1].slide
        /\ drawn'[1].slide <= drawn[1].slide + 1
        /\ (drawn'[1].slide = drawn[1].slide + 1) =
               (frame % FramesPerPeriod = 0)

\* C22: when slideDuration * FPS and transitionDuration * FPS are integers an
\* export renders exactly slideCount * period * FPS frames, each slide index
\* owns period * FPS consecutive frames (slideDuration * FPS steady frames,
\* then transitionDuration * FPS transition or held frames), and the slide
\* index never decreases and grows by at most 1 from a frame to the next.
C22_FrameCount == []C22_Frames /\ [][C22_Step]_vars

C22_Witness ==
    /\ InFrameLoop
    /\ WholeFrames
    /\ stopCalls = 1
    /\ Len(slides) = 2
    /\ settings.transitionDuration = HalfSec(1)
    /\ frame = 2 * FramesPerPeriod
    /\ Len(drawn) = 1
    /\ drawn[1].slide = 1

\* ----------------------------------------------------------------- C23
C23_Range ==
    /\ (Len(slides) > 0) =>
           (currentSlideIndex >= 0 /\ currentSlideIndex < Len(slides))
    /\ (Len(slides) = 0) => currentSlideIndex = 0

\* a removal that leaves the index past the end moves it to the new last
\* slide (to 0 when no slide is left); uploads leave the index alone
C23_Step ==
    /\ (Len(slides') < Len(slides)) =>
           currentSlideIndex' =
               IF currentSlideIndex < Len(slides') THEN currentSlideIndex
               ELSE IF Len(slides') = 0 THEN 0
               ELSE Len(slides') - 1
    /\ (Len(slides') > Len(slides)) => currentSlideIndex' = currentSlideIndex

\* C23: after any sequence of uploads, removals, play/pause toggles and timer
\* advances the preview's current slide index is in range: it is in
\* 0..slideCount-1 when there are slides and 0 when there are none.
C23_IndexInRange == []C23_Range /\ [][C23_Step]_vars

C23_Witness ==
    /\ lastEvent = "remove"
    /\ isPlaying
    /\ Len(slides) = 2
    /\ currentSlideIndex = 1

\* ----------------------------------------------------------------- C24
C24_Playing == isPlaying => Len(slides) > 0

\* without slides no step starts playback
C24_Step == (Len(slides) = 0) => (~isPlaying /\ ~isPlaying')

\* C24: the preview is never playing with an empty slide list: isPlaying
\* implies slideCount > 0 after any sequence of uploads, removals, play/pause
\* toggles and audio playback failures; play is refused without slides and
\* removing the last slide stops playback.
C24_NoPlayWithoutSlides == []C24_Playing /\ [][C24_Step]_vars

C24_Witness ==
    /\ lastEvent = "remove"
    /\ Len(slides) = 0
    /\ ~isPlaying
    /\ musicUrl
    /\ ~audioPaused

\* ----------------------------------------------------------------- C25
C25_Muted ==
    /\ ~isExporting => ~audioMuted
    /\ audioMuted => (isExporting /\ musicUrl)

\* the flag is set by a running export whose audio set-up succeeded and is
\* cleared by the step that ends the export
C25_Step ==
    /\ (~audioMuted /\ audioMuted') =>
           (isExporting /\ isExporting' /\ exportAudio' = "playing")
    /\ (audioMuted /\ ~audioMuted') => (isExporting /\ ~isExporting')
    /\ (isExporting /\ ~isExporting') => ~audioMuted'

\* C25: the preview audio is muted only while an export is in progress: in
\* every state where isExporting is false the preview audio element is
\* unmuted, after an export whose audio set-up failed as well as after one
\* that completed normally.
C25_MutedOnlyWhileExporting == []C25_Muted /\ [][C25_Step]_vars

C25_Witness ==
    /\ ~isExporting
    /\ artifact = "saved"
    /\ lastEvent = "export"
    /\ musicUrl
    /\ Len(slides) = 2
    /\ ~audioMuted

====
